---- MODULE Spec2Model ----
(***************************************************************************)
(* A model of go-jsonxtractr: extraction of values from a JSON document by *)
(* dot-separated selectors (value_extractor.go, extract_state.go).         *)
(*                                                                         *)
(* Strings (selectors, segments, member names) are sequences of one-       *)
(* character strings, so that strings.Split, strconv.Atoi and the quote    *)
(* stripping of navigateObjectKey are computed and not assumed.            *)
(*                                                                         *)
(* A document is the sequence of JSON tokens its bytes lex to.  The token  *)
(* "bad" stands for bytes jsontext cannot accept at that place (an invalid *)
(* literal, a missing or misplaced ',' or ':').  The empty sequence is the *)
(* zero-length body.  Whitespace-only bodies are not modelled.             *)
(***************************************************************************)
EXTENDS Integers, Sequences, FiniteSets, TLC

VARIABLES
    pc,         \* position of the running call
    op,         \* the exported function that was called
    input,      \* the io.Reader / byte slice handed in
    selectors,  \* the selector list of the batch call
    rawBytes,   \* the buffered document (value_extractor.go:40)
    valuesMap,  \* ValuesMap under construction / returned
    notFound,   \* the returned not-found list
    errs,       \* the per-selector errors collected by the batch loop
    err,        \* the error returned by the batch call
    idx,        \* number of selectors the batch loop has finished
    state,      \* the extractState of the selector being traversed
    hist,       \* the values state.position has taken in this traversal
    last,       \* the last segment navigation: cursor before and after, outcome
    result      \* what a single-value operation returns

vars == <<pc, op, input, selectors, rawBytes, valuesMap, notFound, errs, err,
          idx, state, hist, last, result>>

(***************************************************************************)
(* Bounds of the model.                                                    *)
(***************************************************************************)
MaxArrLen == 2
MaxBatch == 2

(***************************************************************************)
(* Characters and strings.                                                 *)
(***************************************************************************)
Quote == "\""
Dot == "."
Digits == <<"0", "1", "2", "3", "4", "5", "6", "7", "8", "9">>

IsDigit(c) == \E d \in 1..10 : Digits[d] = c

DigitVal(c) == (CHOOSE d \in 1..10 : Digits[d] = c) - 1

\* The decimal text of a small natural number, as strconv.Itoa writes it.
RECURSIVE Itoa(_)
Itoa(n) == IF n < 10 THEN <<Digits[n + 1]>>
           ELSE Itoa(n \div 10) \o <<Digits[(n % 10) + 1]>>

(***************************************************************************)
(* JSON documents as trees, and the token stream a tree is written as.     *)
(***************************************************************************)
Obj(ms) == [k |-> "{", m |-> ms]
Arr(es) == [k |-> "[", e |-> es]
Str(s) == [k |-> "string", s |-> s]
NumInt(n) == [k |-> "number", lex |-> "int", n |-> n]
NumFrac(tenths) == [k |-> "number", lex |-> "frac", n |-> tenths]
Lit(name) == [k |-> name]
Member(name, v) == [name |-> name, v |-> v]

RECURSIVE Tokens(_)
RECURSIVE TokensOfMembers(_)
RECURSIVE TokensOfElems(_)
Tokens(v) ==
    CASE v.k = "{" -> <<Lit("{")>> \o TokensOfMembers(v.m) \o <<Lit("}")>>
      [] v.k = "[" -> <<Lit("[")>> \o TokensOfElems(v.e) \o <<Lit("]")>>
      [] OTHER -> <<v>>
TokensOfMembers(ms) ==
    IF ms = <<>> THEN <<>>
    ELSE <<Str(Head(ms).name)>> \o Tokens(Head(ms).v) \o TokensOfMembers(Tail(ms))
TokensOfElems(es) ==
    IF es = <<>> THEN <<>>
    ELSE Tokens(Head(es)) \o TokensOfElems(Tail(es))

(***************************************************************************)
(* The token cursor: encoding/json/jsontext.Decoder over a token sequence. *)
(* A decoder is its position and the stack of containers it is inside;     *)
(* each object frame remembers the names read so far (jsontext rejects a   *)
(* duplicate name) and whether a name or a value comes next.               *)
(***************************************************************************)
NewDecoder(toks) == [toks |-> toks, pos |-> 1, stack |-> <<>>]

AtEOF(d) == d.pos > Len(d.toks)

Front(s) == SubSeq(s, 1, Len(s) - 1)

Last(s) == s[Len(s)]

\* Decoder.PeekKind: the kind of the next token, not consumed; "invalid"
\* (Kind 0) at the end of input and where the bytes are not acceptable.
PeekKind(d) ==
    IF AtEOF(d) THEN "invalid"
    ELSE IF d.toks[d.pos].k = "bad" THEN "invalid"
    ELSE d.toks[d.pos].k

\* A value has just been completed inside the innermost container.
ValueDone(stack) ==
    IF stack # <<>> /\ Last(stack).t = "{"
    THEN [stack EXCEPT ![Len(stack)].needName = TRUE]
    ELSE stack

ReadFail(d) == [err |-> TRUE, tok |-> Lit("invalid"), d |-> d]

ReadOk(d, tok, stack) ==
    [err |-> FALSE, tok |-> tok, d |-> [d EXCEPT !.pos = d.pos + 1, !.stack = stack]]

\* Decoder.ReadToken: reads one token, checking it against the JSON grammar.
ReadToken(d) ==
    IF AtEOF(d) \/ PeekKind(d) = "invalid" THEN ReadFail(d)
    ELSE
      LET tok == d.toks[d.pos]
          inside == d.stack # <<>>
          top == Last(d.stack)
      IN  IF inside /\ top.t = "{" /\ top.needName
          THEN CASE tok.k = "}" -> ReadOk(d, tok, ValueDone(Front(d.stack)))
                 [] tok.k = "string" /\ tok.s \notin top.names ->
                      ReadOk(d, tok, [d.stack EXCEPT
                                        ![Len(d.stack)].names = @ \cup {tok.s},
                                        ![Len(d.stack)].needName = FALSE])
                 [] OTHER -> ReadFail(d)
          ELSE CASE tok.k = "]" ->
                      IF inside /\ top.t = "["
                      THEN ReadOk(d, tok, ValueDone(Front(d.stack)))
                      ELSE ReadFail(d)
                 [] tok.k = "}" -> ReadFail(d)
                 [] tok.k = "{" ->
                      ReadOk(d, tok, Append(d.stack,
                                 [t |-> "{", names |-> {}, needName |-> TRUE]))
                 [] tok.k = "[" ->
                      ReadOk(d, tok, Append(d.stack,
                                 [t |-> "[", names |-> {}, needName |-> FALSE]))
                 [] OTHER -> ReadOk(d, tok, ValueDone(d.stack))

\* The loop of Decoder.SkipValue over an object or array: read tokens until
\* the depth is back at the depth the value started at.
RECURSIVE SkipLoop(_, _)
SkipLoop(d, depth) ==
    LET r == ReadToken(d)
    IN  IF r.err THEN [err |-> TRUE, d |-> d]
        ELSE IF Len(r.d.stack) <= depth THEN [err |-> FALSE, d |-> r.d]
        ELSE SkipLoop(r.d, depth)

\* Decoder.SkipValue: skips the next value whole; fails at a '}' or ']', at
\* the end of input and on malformed content.
SkipValue(d) ==
    LET k == PeekKind(d)
    IN  IF k \in {"{", "["} THEN SkipLoop(d, Len(d.stack))
        ELSE IF k \in {"}", "]"} THEN [err |-> TRUE, d |-> d]
        ELSE LET r == ReadToken(d) IN [err |-> r.err, d |-> r.d]

(***************************************************************************)
(* Decoded values: what json.UnmarshalDecode stores in an `any`.           *)
(* A float64 is kept as its value in tenths, so that the JSON numbers 1    *)
(* and 1.0 decode to the same value.                                       *)
(***************************************************************************)
GoNil == [t |-> "nil"]
GoBool(b) == [t |-> "bool", b |-> b]
GoString(s) == [t |-> "string", s |-> s]
GoFloat64(tenths) == [t |-> "float64", tenths |-> tenths]
GoSlice(es) == [t |-> "[]any", e |-> es]
GoMap(f) == [t |-> "map[string]any", m |-> f]

\* How a number token is stored in an `any`.
NumberToAny(tok) ==
    IF tok.lex = "int" THEN GoFloat64(10 * tok.n) ELSE GoFloat64(tok.n)

ScalarToAny(tok) ==
    CASE tok.k = "string" -> GoString(tok.s)
      [] tok.k = "number" -> NumberToAny(tok)
      [] tok.k = "true" -> GoBool(TRUE)
      [] tok.k = "false" -> GoBool(FALSE)
      [] OTHER -> GoNil

DecodeFail(d) == [err |-> TRUE, v |-> GoNil, d |-> d]

\* json.UnmarshalDecode(decoder, &value) with value an `any`: decodes the
\* next value at the cursor.
RECURSIVE UnmarshalDecode(_)
RECURSIVE DecodeMembers(_, _)
RECURSIVE DecodeElems(_, _)
UnmarshalDecode(d) ==
    LET k == PeekKind(d)
    IN  IF k \in {"}", "]", "invalid"} THEN DecodeFail(d)
        ELSE LET r == ReadToken(d)
             IN  IF r.err THEN DecodeFail(d)
                 ELSE CASE k = "{" -> DecodeMembers(r.d, <<>>)
                        [] k = "[" -> DecodeElems(r.d, <<>>)
                        [] OTHER -> [err |-> FALSE, v |-> ScalarToAny(r.tok), d |-> r.d]
DecodeMembers(d, f) ==
    LET r == ReadToken(d)
    IN  IF r.err THEN DecodeFail(d)
        ELSE IF r.tok.k = "}" THEN [err |-> FALSE, v |-> GoMap(f), d |-> r.d]
        ELSE LET x == UnmarshalDecode(r.d)
             IN  IF x.err THEN DecodeFail(d)
                 ELSE DecodeMembers(x.d, (r.tok.s :> x.v) @@ f)
DecodeElems(d, es) ==
    IF PeekKind(d) = "]"
    THEN LET r == ReadToken(d) IN [err |-> r.err, v |-> GoSlice(es), d |-> r.d]
    ELSE LET x == UnmarshalDecode(d)
         IN  IF x.err THEN DecodeFail(d)
             ELSE DecodeElems(x.d, Append(es, x.v))

(***************************************************************************)
(* Errors.  NewErr, WithErr and CombineErrs build structured errors: an    *)
(* entry carries sentinel errors, key/value pairs and, joined last, the    *)
(* causes; errors.Is matches a sentinel of the entry or of a cause.        *)
(***************************************************************************)
ErrJSONBodyCannotBeEmpty == "JSON body cannot be empty"
ErrJSONIndexOutOfRange == "JSON index out of range"
ErrJSONPathContainsEmptySegment == "JSON path contains empty segment"
ErrJSONPathExpectedArrayAtSegment == "JSON path expected array at segment"
ErrJSONPathExpectedObjectAtSegment == "JSON path expected object at segment"
ErrJSONPathSegmentNotFound == "JSON path segment not found"
ErrJSONPathTraversalFailed == "JSON path traversal failed"
ErrJSONReadFailed == "JSON read failed"
ErrJSONStreamingParseFailed == "JSON streaming parse failed"
ErrJSONTokenReadFailed == "JSON token read failed"
ErrJSONUnmarshalFailed == "JSON unmarshal failed"
ErrJSONValueSelectorCannotBeEmpty == "JSON value selector cannot be empty"
ErrJSONSelectorNotFound == "JSON selector not found"
ErrExtractingFromJSONByReader == "extracting from JSON by reader"
ErrExtractingFromJSONBytes == "extracting from JSON bytes"
ErrFailedToExtractValueFromJSON == "failed to extract value from JSON"

\* The nil error.
NoErr == [nil |-> TRUE]

NewErr(sentinels, kv, causes) ==
    [nil |-> FALSE, sentinels |-> sentinels, kv |-> kv, causes |-> causes]

WithErr(sentinels, kv, cause) == NewErr(sentinels, kv, <<cause>>)

CombineErrs(es) == NewErr(<<>>, <<>>, es)

\* The error a failed read of the token cursor returns (a
\* jsontext.SyntacticError, io.ErrUnexpectedEOF or io.EOF).
DecoderErr == NewErr(<<"jsontext: syntactic error">>, <<>>, <<>>)

\* The error a failing io.Reader returns.
ReaderErr == NewErr(<<"io: read error">>, <<>>, <<>>)

\* errors.Is(e, target)
RECURSIVE ErrorsIs(_, _)
ErrorsIs(e, target) ==
    /\ ~e.nil
    /\ \/ \E i \in 1..Len(e.sentinels) : e.sentinels[i] = target
       \/ \E i \in 1..Len(e.causes) : ErrorsIs(e.causes[i], target)

\* The entry e itself carries the pair key=val.
HasKV(e, key, val) ==
    /\ ~e.nil
    /\ \E i \in 1..Len(e.kv) : e.kv[i][1] = key /\ e.kv[i][2] = val

\* The pair key=val is carried by e or by an error joined into it, so that
\* it shows in the text of e.
RECURSIVE Reports(_, _, _)
Reports(e, key, val) ==
    /\ ~e.nil
    /\ \/ HasKV(e, key, val)
       \/ \E i \in 1..Len(e.causes) : Reports(e.causes[i], key, val)

(***************************************************************************)
(* extractState (extract_state.go).  position counts from 0 as in the      *)
(* source; segments is a 1-based sequence.                                 *)
(***************************************************************************)
\* strings.Split(s, ".")
RECURSIVE Split(_)
Split(s) ==
    IF \A i \in 1..Len(s) : s[i] # Dot THEN <<s>>
    ELSE LET i == CHOOSE j \in 1..Len(s) :
                      s[j] = Dot /\ \A h \in 1..(j - 1) : s[h] # Dot
         IN  <<SubSeq(s, 1, i - 1)>> \o Split(SubSeq(s, i + 1, Len(s)))

newExtractState(decoder, selector) ==
    [decoder |-> decoder,
     selector |-> selector,
     segments |-> Split(selector),
     pathProgress |-> <<>>,
     position |-> 0,
     i |-> 0]    \* the index of the range loop of extractSingleValue

\* enrichError: the sentinels, then the context of the session, then the
\* pairs of the failure site, then the cause.  (The condensed_json pair, a
\* rendering of the document bytes, is left out.)
enrichError(s, sentinels, kv, causes) ==
    NewErr(sentinels,
           <<<<"json_path", s.selector>>>>
           \o (IF s.position < Len(s.segments)
               THEN <<<<"segment", s.segments[s.position + 1]>>,
                      <<"segment_position", s.position>>>>
               ELSE <<>>)
           \o (IF Len(s.pathProgress) > 0
               THEN <<<<"path_progress", s.pathProgress>>>>
               ELSE <<>>)
           \o kv,
           causes)

\* strconv.Atoi: an optional sign, then decimal digits; the value must fit
\* in the 64-bit int.
MaxInt64 == <<"9","2","2","3","3","7","2","0","3","6","8","5","4","7","7","5","8","0","7">>
MinInt64Magnitude == <<"9","2","2","3","3","7","2","0","3","6","8","5","4","7","7","5","8","0","8">>

RECURSIVE StripZeros(_)
StripZeros(ds) ==
    IF Len(ds) > 1 /\ ds[1] = "0" THEN StripZeros(Tail(ds)) ELSE ds

\* ds > limit for digit sequences without leading zeros.
DigitsExceed(ds, limit) ==
    \/ Len(ds) > Len(limit)
    \/ /\ Len(ds) = Len(limit)
       /\ \E i \in 1..Len(ds) :
            /\ DigitVal(ds[i]) > DigitVal(limit[i])
            /\ \A j \in 1..(i - 1) : ds[j] = limit[j]

RECURSIVE DigitsValue(_)
DigitsValue(ds) ==
    IF ds = <<>> THEN 0 ELSE 10 * DigitsValue(Front(ds)) + DigitVal(Last(ds))

Atoi(seg) ==
    LET signed == seg # <<>> /\ seg[1] \in {"-", "+"}
        neg == seg # <<>> /\ seg[1] = "-"
        ds == IF signed THEN Tail(seg) ELSE seg
    IN  IF ds = <<>> \/ \E i \in 1..Len(ds) : ~IsDigit(ds[i])
        THEN [ok |-> FALSE, n |-> 0]
        ELSE IF DigitsExceed(StripZeros(ds), IF neg THEN MinInt64Magnitude ELSE MaxInt64)
        THEN [ok |-> FALSE, n |-> 0]
        ELSE [ok |-> TRUE,
              n |-> IF neg THEN 0 - DigitsValue(ds) ELSE DigitsValue(ds)]

NavOk(s, d) == [err |-> NoErr, s |-> [s EXCEPT !.decoder = d]]

NavFail(s, d, e) == [err |-> e, s |-> [s EXCEPT !.decoder = d]]

\* A variant that reports the target index as the array's length.
IndexOutOfRangeAtTarget(s, d, currentIdx, targetIdx) ==
    NavFail(s, d, enrichError(s,
        <<ErrJSONPathTraversalFailed, ErrJSONIndexOutOfRange>>,
        <<<<"target_index", targetIdx>>, <<"array_length", targetIdx>>>>,
        <<>>))

\* The skip loop of navigateArrayIndex (extract_state.go:84-117), the
\* cursor inside the array and currentIdx elements skipped.
IndexOutOfRangeAt(s, d, currentIdx, targetIdx) ==
    NavFail(s, d, enrichError(s,
        <<ErrJSONPathTraversalFailed, ErrJSONIndexOutOfRange>>,
        <<<<"target_index", targetIdx>>, <<"array_length", currentIdx>>>>,
        <<>>))

RECURSIVE ArraySkipLoop(_, _, _, _)
ArraySkipLoop(s, d, currentIdx, targetIdx) ==
    IF currentIdx < targetIdx
    THEN IF PeekKind(d) = "]"
         THEN IndexOutOfRangeAt(s, d, currentIdx, targetIdx)
         ELSE LET r == SkipValue(d)
              IN  IF r.err
                  THEN NavFail(s, d, enrichError(s,
                           <<ErrJSONPathTraversalFailed, ErrJSONTokenReadFailed>>,
                           <<<<"skip_index", currentIdx>>>>,
                           <<DecoderErr>>))
                  ELSE ArraySkipLoop(s, r.d, currentIdx + 1, targetIdx)
    ELSE IF PeekKind(d) = "]"
         THEN IndexOutOfRangeAt(s, d, currentIdx, targetIdx)
         ELSE NavOk(s, d)

navigateArrayIndex(s, targetIdx) ==
    LET d == s.decoder
        kind == PeekKind(d)
    IN  IF targetIdx < 0
        THEN NavFail(s, d, enrichError(s,
                 <<ErrJSONPathTraversalFailed, ErrJSONIndexOutOfRange>>,
                 <<<<"target_index", targetIdx>>>>,
                 <<>>))
        ELSE IF kind # "["
        THEN NavFail(s, d, enrichError(s,
                 <<ErrJSONPathTraversalFailed, ErrJSONPathExpectedArrayAtSegment>>,
                 <<<<"expected_type", "array">>, <<"actual_type", kind>>>>,
                 <<>>))
        ELSE LET r == ReadToken(d)
             IN  IF r.err
                 THEN NavFail(s, d, enrichError(s,
                          <<ErrJSONPathTraversalFailed, ErrJSONTokenReadFailed>>,
                          <<<<"expected_token", "array_start">>>>,
                          <<DecoderErr>>))
                 ELSE ArraySkipLoop(s, r.d, 0, targetIdx)

\* Token.String() of a name: the unescaped text of the JSON string.
TokenString(tok) == tok.s

\* extract_state.go:169-172, "Remove quotes from key".
StripQuotes(key) ==
    IF Len(key) >= 2 /\ key[1] = Quote /\ key[Len(key)] = Quote
    THEN SubSeq(key, 2, Len(key) - 1)
    ELSE key

\* The search loop of navigateObjectKey (extract_state.go:155-199), the
\* cursor inside the object.
RECURSIVE ObjectKeyLoop(_, _, _, _)
ObjectKeyLoop(s, d, availableKeys, targetKey) ==
    IF PeekKind(d) = "}"
    THEN NavFail(s, d, enrichError(s,
             <<ErrJSONPathTraversalFailed, ErrJSONPathSegmentNotFound>>,
             <<<<"missing_key", targetKey>>, <<"available_keys", availableKeys>>>>,
             <<>>))
    ELSE LET r == ReadToken(d)
         IN  IF r.err
             THEN NavFail(s, d, enrichError(s,
                      <<ErrJSONPathTraversalFailed, ErrJSONTokenReadFailed>>,
                      <<<<"reading", "object_key">>>>,
                      <<DecoderErr>>))
             ELSE LET key == StripQuotes(TokenString(r.tok))
                  IN  IF key = targetKey THEN NavOk(s, r.d)
                      ELSE LET k == SkipValue(r.d)
                           IN  IF k.err
                               THEN NavFail(s, r.d, enrichError(s,
                                        <<ErrJSONPathTraversalFailed, ErrJSONTokenReadFailed>>,
                                        <<<<"skipping_key", key>>>>,
                                        <<DecoderErr>>))
                               ELSE ObjectKeyLoop(s, k.d, Append(availableKeys, key), targetKey)

navigateObjectKey(s, targetKey) ==
    LET d == s.decoder
        kind == PeekKind(d)
    IN  IF kind # "{"
        THEN NavFail(s, d, enrichError(s,
                 <<ErrJSONPathTraversalFailed, ErrJSONPathExpectedObjectAtSegment>>,
                 <<<<"expected_type", "object">>, <<"actual_type", kind>>>>,
                 <<>>))
        ELSE LET r == ReadToken(d)
             IN  IF r.err
                 THEN NavFail(s, d, enrichError(s,
                          <<ErrJSONPathTraversalFailed, ErrJSONTokenReadFailed>>,
                          <<<<"expected_token", "object_start">>>>,
                          <<DecoderErr>>))
                 ELSE ObjectKeyLoop(s, r.d, <<>>, targetKey)

\* A variant that takes every segment for a key.
navigateToSegmentAsKey(s, segment) == navigateObjectKey(s, segment)

navigateToSegment(s, segment) ==
    LET a == Atoi(segment)
    IN  IF a.ok THEN navigateArrayIndex(s, a.n)
        ELSE navigateObjectKey(s, segment)

(***************************************************************************)
(* The inputs the calls are made with.                                     *)
(***************************************************************************)
KeyA == <<"a">>
KeyB == <<"b">>
KeyC == <<"c">>
\* The three-character member name "a" whose first and last characters
\* are quotation marks (written "\"a\"" in a JSON document).
KeyQA == <<Quote, "a", Quote>>
\* Segments strconv.Atoi and the pattern ^-?[0-9]+$ disagree on: a number
\* with a plus sign, and twenty digits, beyond the 64-bit int.
PlusOne == <<"+", "1">>
TwentyNines == [i \in 1..20 |-> "9"]

SeqsUpTo(S, n) == UNION {[1..k -> S] : k \in 0..n}

Scalars == {NumInt(1), NumFrac(25), Str(<<"x">>), Lit("true"), Lit("null")}

Elems == {NumInt(1), Str(<<"x">>)}

FlatArrays == {Arr(es) : es \in SeqsUpTo(Elems, MaxArrLen)}

Leaves == Scalars \cup FlatArrays \cup {Obj(<<>>), Obj(<<Member(KeyB, NumInt(1))>>)}

OneMember == {Obj(<<Member(k, v)>>) : k \in {KeyA, KeyQA}, v \in Leaves}

SecondValues == {NumFrac(25), Arr(<<NumInt(1), Str(<<"x">>)>>),
                 Obj(<<Member(KeyB, NumInt(1))>>)}

TwoMembers ==
    {Obj(<<Member(p[1], NumInt(1)), Member(p[2], v)>>) :
        p \in {<<KeyB, KeyA>>, <<KeyA, KeyQA>>, <<KeyQA, KeyA>>}, v \in SecondValues}

Nested ==
    {Arr(<<Obj(<<Member(KeyA, NumInt(1))>>)>>),
     Arr(<<NumInt(1), Arr(<<Str(<<"x">>)>>)>>),
     Arr(<<Arr(<<>>), Obj(<<Member(KeyA, Arr(<<NumInt(1), Str(<<"x">>)>>))>>)>>),
     Obj(<<Member(KeyA, Arr(<<Obj(<<Member(KeyB, NumInt(1))>>)>>))>>),
     Obj(<<Member(KeyA, Obj(<<Member(KeyB, Obj(<<Member(KeyA, NumFrac(25))>>))>>))>>)}

\* Objects with one member of a numeric-looking name.
NumericNamed ==
    {Obj(<<Member(k, Str(<<"x">>))>>) : k \in {<<"0">>, PlusOne, TwentyNines}}

WellFormedTrees == Leaves \cup OneMember \cup TwoMembers \cup Nested \cup NumericNamed

NoTree == Lit("none")

Document(toks, wf, tree) ==
    [nil |-> FALSE, fails |-> FALSE, toks |-> toks, wf |-> wf, tree |-> tree]

WellFormedDocs == {Document(Tokens(t), TRUE, t) : t \in WellFormedTrees}

\* Malformed documents: truncated ones, ones with unacceptable bytes in the
\* place of one token, and ones that break the grammar or repeat a name.
MalformedBase ==
    {Obj(<<Member(KeyA, Arr(<<NumInt(1), Str(<<"x">>)>>))>>),
     Obj(<<Member(KeyB, NumInt(1)), Member(KeyA, Obj(<<Member(KeyB, NumInt(1))>>))>>),
     Arr(<<NumInt(1), Arr(<<Str(<<"x">>)>>)>>)}

Truncated ==
    {SubSeq(Tokens(t), 1, n) : t \in MalformedBase, n \in 1..6} \ {Tokens(t) : t \in MalformedBase}

Garbled ==
    UNION {{[Tokens(t) EXCEPT ![n] = Lit("bad")] : n \in 1..Len(Tokens(t))} : t \in MalformedBase}

Ungrammatical ==
    {<<Lit("{"), Str(KeyA), NumInt(1), Str(KeyA), Str(<<"x">>), Lit("}")>>,
     <<Lit("{"), Str(KeyB), NumInt(1), Str(KeyB), NumInt(1), Str(KeyA), NumInt(1), Lit("}")>>,
     <<Lit("["), NumInt(1), Lit("}")>>,
     <<Lit("{"), Str(KeyA), NumInt(1), Lit("]")>>,
     <<Lit("{"), NumInt(1), Str(KeyA), Lit("}")>>,
     <<Lit("{"), Str(KeyA), Lit("}")>>}

MalformedDocs ==
    {Document(toks, FALSE, NoTree) : toks \in Truncated \cup Garbled \cup Ungrammatical}

EmptyDoc == Document(<<>>, FALSE, NoTree)

Docs == WellFormedDocs \cup MalformedDocs \cup {EmptyDoc}

\* Readers: one over each document, the nil reader, and a reader whose
\* Read fails.
NilReader == [nil |-> TRUE, fails |-> FALSE, toks |-> <<>>, wf |-> FALSE, tree |-> NoTree]

FailingReader == [nil |-> FALSE, fails |-> TRUE, toks |-> <<>>, wf |-> FALSE, tree |-> NoTree]

Readers == Docs \cup {NilReader, FailingReader}

\* Selectors: up to two segments joined with dots, over key segments,
\* index segments and the empty segment, and some of three segments.
Segs == {KeyA, KeyB, KeyC, KeyQA, <<"-", "1">>, <<>>, PlusOne, TwentyNines}
        \cup {Itoa(n) : n \in 0..MaxArrLen}

Join2(x, y) == x \o <<Dot>> \o y

Selectors3 ==
    {Join2(KeyA, Join2(<<"0">>, KeyB)), Join2(KeyA, Join2(KeyB, KeyA)),
     Join2(<<"1">>, Join2(KeyA, <<"1">>)), Join2(KeyA, Join2(<<>>, KeyB)),
     Join2(KeyA, Join2(KeyB, KeyC))}

Selectors == Segs \cup {Join2(x, y) : x, y \in Segs} \cup Selectors3

\* The batch calls are made over fewer documents and selectors.
BatchSelectors == {<<>>, KeyA, KeyB, KeyQA, <<"0">>, Join2(KeyA, <<"1">>), Join2(KeyA, KeyB)}

BatchLists == SeqsUpTo(BatchSelectors, MaxBatch)

BatchDocs ==
    {Document(Tokens(t), TRUE, t) : t \in TwoMembers \cup FlatArrays}
    \cup {Document(SubSeq(Tokens(t), 1, n), FALSE, NoTree) :
             t \in {Obj(<<Member(KeyB, NumInt(1)),
                          Member(KeyA, Obj(<<Member(KeyB, NumInt(1))>>))>>)},
             n \in 1..6}
    \cup {EmptyDoc}

BatchReaders == BatchDocs \cup {NilReader, FailingReader}

(***************************************************************************)
(* The calls.                                                              *)
(***************************************************************************)
BatchOps == {"ExtractValuesFromReader", "ExtractValuesFromBytes"}
SingleOps == {"ExtractValueFromReader", "ExtractValueFromBytes"}
BytesOps == {"ExtractValuesFromBytes", "ExtractValueFromBytes"}

NoState == [nil |-> TRUE]

NoNav == [acted |-> FALSE]

NoResult == [returned |-> FALSE]

Init ==
    /\ pc = "idle"
    /\ op = "none"
    /\ input = NilReader
    /\ selectors = <<>>
    /\ rawBytes = <<>>
    /\ valuesMap = <<>>
    /\ notFound = <<>>
    /\ errs = <<>>
    /\ err = NoErr
    /\ idx = 0
    /\ state = NoState
    /\ hist = <<>>
    /\ last = NoNav
    /\ result = NoResult

\* Where a batch call returns to: its caller, or the single-value
\* operation that made it.
ReturnPc(o) == IF o \in SingleOps THEN "wrap" ELSE "done"

\* ExtractValuesFromBytes, value_extractor.go:89-96.
BytesRejected(o, in) == o \in BytesOps /\ Len(in.toks) = 0

\* The error ExtractValuesFromReader returns before it processes any
\* selector (value_extractor.go:21-48), or NoErr.
ReaderRejection(in, sels) ==
    IF in.nil
    THEN NewErr(<<ErrJSONPathTraversalFailed, ErrJSONBodyCannotBeEmpty>>,
                <<<<"selectors", sels>>>>, <<>>)
    ELSE IF Len(sels) = 0
    THEN NewErr(<<ErrJSONPathTraversalFailed, ErrJSONValueSelectorCannotBeEmpty>>,
                <<>>, <<>>)
    ELSE IF in.fails
    THEN NewErr(<<ErrJSONStreamingParseFailed, ErrJSONReadFailed>>, <<>>, <<ReaderErr>>)
    ELSE NoErr

\* The error a call returns before the loop over the selectors, or NoErr.
EntryErr(o, in, sels) ==
    IF BytesRejected(o, in)
    THEN NewErr(<<ErrJSONPathTraversalFailed, ErrJSONBodyCannotBeEmpty>>,
                <<<<"selectors", sels>>>>, <<>>)
    ELSE ReaderRejection(in, sels)

\* The bytes readAllBytes has buffered when the loop starts.
readAllBytes(in) == in.toks

ExtractValuesFromReader ==
    /\ pc = "idle"
    /\ \E in \in BatchReaders, sels \in BatchLists :
         LET e == EntryErr("ExtractValuesFromReader", in, sels)
         IN  /\ op' = "ExtractValuesFromReader"
             /\ input' = in
             /\ selectors' = sels
             /\ err' = e
             /\ rawBytes' = IF e.nil THEN readAllBytes(in) ELSE <<>>
             /\ pc' = IF e.nil THEN "loop" ELSE "done"
    /\ UNCHANGED <<valuesMap, notFound, errs, idx, state, hist, last, result>>

ExtractValuesFromBytes ==
    /\ pc = "idle"
    /\ \E in \in BatchDocs, sels \in BatchLists :
         LET e == EntryErr("ExtractValuesFromBytes", in, sels)
         IN  /\ op' = "ExtractValuesFromBytes"
             /\ input' = in
             /\ selectors' = sels
             /\ err' = e
             /\ rawBytes' = IF e.nil THEN readAllBytes(in) ELSE <<>>
             /\ pc' = IF e.nil THEN "loop" ELSE "done"
    /\ UNCHANGED <<valuesMap, notFound, errs, idx, state, hist, last, result>>

\* The single-value operations make the batch call with a one-element
\* list (value_extractor.go:110, 148) and go on in ReturnValue.
ExtractValueFromReader ==
    /\ pc = "idle"
    /\ \E in \in Readers, sel \in Selectors :
         LET e == EntryErr("ExtractValueFromReader", in, <<sel>>)
         IN  /\ op' = "ExtractValueFromReader"
             /\ input' = in
             /\ selectors' = <<sel>>
             /\ err' = e
             /\ rawBytes' = IF e.nil THEN readAllBytes(in) ELSE <<>>
             /\ pc' = IF e.nil THEN "loop" ELSE "wrap"
    /\ UNCHANGED <<valuesMap, notFound, errs, idx, state, hist, last, result>>

ExtractValueFromBytes ==
    /\ pc = "idle"
    /\ \E in \in Docs, sel \in Selectors :
         LET e == EntryErr("ExtractValueFromBytes", in, <<sel>>)
         IN  /\ op' = "ExtractValueFromBytes"
             /\ input' = in
             /\ selectors' = <<sel>>
             /\ err' = e
             /\ rawBytes' = IF e.nil THEN readAllBytes(in) ELSE <<>>
             /\ pc' = IF e.nil THEN "loop" ELSE "wrap"
    /\ UNCHANGED <<valuesMap, notFound, errs, idx, state, hist, last, result>>

\* The selector the loop is at.
Current == selectors[idx + 1]

\* A variant without the check for the empty selector.
StartSelectorUnchecked(raw, selector) ==
    [err |-> NoErr, s |-> newExtractState(NewDecoder(raw), selector)]

\* extractSingleValue up to its loop (value_extractor.go:185-194): the
\* empty selector is refused, else a session is made over a fresh cursor.
StartSelector(raw, selector) ==
    IF Len(selector) = 0
    THEN [err |-> NewErr(<<ErrJSONPathTraversalFailed, ErrJSONValueSelectorCannotBeEmpty>>,
                         <<>>, <<>>),
          s |-> NoState]
    ELSE [err |-> NoErr, s |-> newExtractState(NewDecoder(raw), selector)]

\* A variant that moves the position on when a segment has been
\* navigated.
SegmentStepCounted(st) ==
    LET s == [st EXCEPT !.position = st.i]
        segment == s.segments[s.i + 1]
    IN  IF segment = <<>>
        THEN [err |-> enrichError(s,
                        <<ErrJSONPathTraversalFailed, ErrJSONPathContainsEmptySegment>>,
                        <<>>, <<>>),
              s |-> s, nav |-> NoNav]
        ELSE LET r == navigateToSegment(s, segment)
             IN  [err |-> r.err,
                  s |-> IF r.err.nil
                        THEN [r.s EXCEPT !.pathProgress = Append(@, segment), !.i = @ + 1,
                              !.position = @ + 1]
                        ELSE r.s,
                  nav |-> [acted |-> TRUE, segment |-> segment, before |-> s.decoder,
                           after |-> r.s.decoder, err |-> r.err]]

\* One iteration of the loop over the segments (value_extractor.go:197-212)
\* from session st; nav records the navigation made, if one was.
SegmentStep(st) ==
    LET s == [st EXCEPT !.position = st.i]
        segment == s.segments[s.i + 1]
    IN  IF segment = <<>>
        THEN [err |-> enrichError(s,
                        <<ErrJSONPathTraversalFailed, ErrJSONPathContainsEmptySegment>>,
                        <<>>, <<>>),
              s |-> s, nav |-> NoNav]
        ELSE LET r == navigateToSegment(s, segment)
             IN  [err |-> r.err,
                  s |-> IF r.err.nil
                        THEN [r.s EXCEPT !.pathProgress = Append(@, segment), !.i = @ + 1]
                        ELSE r.s,
                  nav |-> [acted |-> TRUE, segment |-> segment, before |-> s.decoder,
                           after |-> r.s.decoder, err |-> r.err]]

\* The final decode (value_extractor.go:214-222).
FinalDecode(st) ==
    LET r == UnmarshalDecode(st.decoder)
    IN  [err |-> IF r.err
                 THEN enrichError(st,
                          <<ErrJSONStreamingParseFailed, ErrJSONUnmarshalFailed>>,
                          <<>>, <<DecoderErr>>)
                 ELSE NoErr,
         v |-> r.v,
         s |-> [st EXCEPT !.decoder = r.d]]

\* extractSingleValue (value_extractor.go:181-226) run to its end on one
\* selector over the bytes raw.
RECURSIVE Traverse(_)
Traverse(st) ==
    IF st.i < Len(st.segments)
    THEN LET r == SegmentStep(st)
         IN  IF r.err.nil THEN Traverse(r.s) ELSE [err |-> r.err, value |-> GoNil]
    ELSE LET r == FinalDecode(st)
         IN  [err |-> r.err, value |-> IF r.err.nil THEN r.v ELSE GoNil]

extractSingleValue(raw, selector) ==
    LET r == StartSelector(raw, selector)
    IN  IF r.err.nil THEN Traverse(r.s) ELSE [err |-> r.err, value |-> GoNil]

\* A variant in which the loop does not move on from a selector that
\* failed.
SelectorFailedStays(e) ==
    /\ errs' = errs
    /\ idx' = idx
    /\ pc' = "loop"
    /\ UNCHANGED valuesMap

\* value_extractor.go:61-63: the selector failed.
SelectorFailed(e) ==
    /\ errs' = Append(errs, e)
    /\ idx' = idx + 1
    /\ pc' = "loop"
    /\ UNCHANGED valuesMap

\* A variant in which the selectors share one reader, which the first
\* selector's cursor has drained.
BeginSelectorSharedReader ==
    /\ pc = "loop"
    /\ idx < Len(selectors)
    /\ LET r == StartSelector(IF idx = 0 THEN rawBytes ELSE <<>>, Current)
       IN  IF r.err.nil
           THEN /\ state' = r.s
                /\ hist' = <<r.s.position>>
                /\ pc' = "nav"
                /\ UNCHANGED <<valuesMap, errs, idx>>
           ELSE /\ SelectorFailed(r.err)
                /\ UNCHANGED <<state, hist>>
    /\ last' = NoNav
    /\ UNCHANGED <<op, input, selectors, rawBytes, notFound, err, result>>

\* The loop takes the next selector and extractSingleValue starts on it
\* (value_extractor.go:54-60, 185-194).
BeginSelector ==
    /\ pc = "loop"
    /\ idx < Len(selectors)
    /\ LET r == StartSelector(rawBytes, Current)
       IN  IF r.err.nil
           THEN /\ state' = r.s
                /\ hist' = <<r.s.position>>
                /\ pc' = "nav"
                /\ UNCHANGED <<valuesMap, errs, idx>>
           ELSE /\ SelectorFailed(r.err)
                /\ UNCHANGED <<state, hist>>
    /\ last' = NoNav
    /\ UNCHANGED <<op, input, selectors, rawBytes, notFound, err, result>>

NavigateSegment ==
    /\ pc = "nav"
    /\ state.i < Len(state.segments)
    /\ LET r == SegmentStep(state)
       IN  /\ state' = r.s
           /\ hist' = Append(hist, r.s.position)
           /\ last' = r.nav
           /\ IF r.err.nil
              THEN UNCHANGED <<pc, valuesMap, errs, idx>>
              ELSE SelectorFailed(r.err)
    /\ UNCHANGED <<op, input, selectors, rawBytes, notFound, err, result>>

\* The value under the cursor is decoded and recorded under its selector
\* (value_extractor.go:214-222, 66).
DecodeValue ==
    /\ pc = "nav"
    /\ state.i = Len(state.segments)
    /\ LET r == FinalDecode(state)
       IN  /\ state' = r.s
           /\ IF r.err.nil
              THEN /\ valuesMap' = (state.selector :> r.v) @@ valuesMap
                   /\ idx' = idx + 1
                   /\ pc' = "loop"
                   /\ UNCHANGED errs
              ELSE SelectorFailed(r.err)
    /\ UNCHANGED <<op, input, selectors, rawBytes, notFound, err, hist, last, result>>

\* A variant that returns the first collected error instead of joining.
JoinedErrFirst(es, e) == IF Len(es) > 0 THEN es[1] ELSE e

\* A variant that joins the collected errors only when there are several.
JoinedErrSeveral(es, e) == IF Len(es) > 1 THEN CombineErrs(es) ELSE e

\* value_extractor.go:69-72: the collected errors are joined.
JoinedErr(es, e) == IF Len(es) > 0 THEN CombineErrs(es) ELSE e

\* A variant that collects the absent selectors last first.
RECURSIVE AbsentReversed(_, _)
AbsentReversed(sels, m) ==
    IF sels = <<>> THEN <<>>
    ELSE AbsentReversed(Tail(sels), m)
         \o (IF Head(sels) \in DOMAIN m THEN <<>> ELSE <<Head(sels)>>)

\* A variant that never looks at the map.
AbsentUnfiltered(sels, m) == sels

\* value_extractor.go:74-81: the selectors of sels that are no key of m,
\* in order.
RECURSIVE Absent(_, _)
Absent(sels, m) ==
    IF sels = <<>> THEN <<>>
    ELSE (IF Head(sels) \in DOMAIN m THEN <<>> ELSE <<Head(sels)>>)
         \o Absent(Tail(sels), m)

\* After the loop (value_extractor.go:69-84).
JoinErrors ==
    /\ pc = "loop"
    /\ idx = Len(selectors)
    /\ err' = JoinedErr(errs, err)
    /\ notFound' = Absent(selectors, valuesMap)
    /\ pc' = ReturnPc(op)
    /\ UNCHANGED <<op, input, selectors, rawBytes, valuesMap, errs, idx, state,
                   hist, last, result>>

\* A variant that looks at the not-found list before the error.
SingleResultNotFoundFirst(o, selector, e, nf, m) ==
    LET via == IF o = "ExtractValueFromReader"
               THEN ErrExtractingFromJSONByReader
               ELSE ErrExtractingFromJSONBytes
        missing == NewErr(<<ErrJSONSelectorNotFound, via>>,
                          <<<<"selector", selector>>>>, <<>>)
    IN  IF Len(nf) > 0
        THEN [returned |-> TRUE, value |-> GoNil, err |-> missing]
        ELSE IF ~e.nil
        THEN [returned |-> TRUE, value |-> GoNil,
              err |-> WithErr(<<ErrFailedToExtractValueFromJSON, via>>,
                              <<<<"selector", selector>>>>, e)]
        ELSE IF selector \notin DOMAIN m
        THEN [returned |-> TRUE, value |-> GoNil, err |-> missing]
        ELSE [returned |-> TRUE, value |-> m[selector], err |-> NoErr]

\* What a single-value operation returns for the results of its batch
\* call (value_extractor.go:111-139, 149-177).
SingleResult(o, selector, e, nf, m) ==
    LET via == IF o = "ExtractValueFromReader"
               THEN ErrExtractingFromJSONByReader
               ELSE ErrExtractingFromJSONBytes
        missing == NewErr(<<ErrJSONSelectorNotFound, via>>,
                          <<<<"selector", selector>>>>, <<>>)
    IN  IF ~e.nil
        THEN [returned |-> TRUE, value |-> GoNil,
              err |-> WithErr(<<ErrFailedToExtractValueFromJSON, via>>,
                              <<<<"selector", selector>>>>, e)]
        ELSE IF Len(nf) > 0
        THEN [returned |-> TRUE, value |-> GoNil, err |-> missing]
        ELSE IF selector \notin DOMAIN m
        THEN [returned |-> TRUE, value |-> GoNil, err |-> missing]
        ELSE [returned |-> TRUE, value |-> m[selector], err |-> NoErr]

ReturnValue ==
    /\ pc = "wrap"
    /\ result' = SingleResult(op, selectors[1], err, notFound, valuesMap)
    /\ pc' = "done"
    /\ UNCHANGED <<op, input, selectors, rawBytes, valuesMap, notFound, errs, err,
                   idx, state, hist, last>>

Next ==
    \/ ExtractValuesFromReader
    \/ ExtractValuesFromBytes
    \/ ExtractValueFromReader
    \/ ExtractValueFromBytes
    \/ BeginSelector
    \/ NavigateSegment
    \/ DecodeValue
    \/ JoinErrors
    \/ ReturnValue

Spec == Init /\ [][Next]_vars

\* A call, once made, runs on: the code is sequential and nothing in it
\* waits (the one blocking read is modelled as done when the call is
\* entered).  Inside a traversal (pc = "nav") one of NavigateSegment and
\* DecodeValue can always be taken and changes the state, so that weak
\* fairness of the two is written with its enabling condition spelled out.
LiveSpec ==
    /\ Init /\ [][Next]_vars
    /\ WF_vars(BeginSelector \/ JoinErrors \/ ReturnValue)
    /\ ([]<>(pc # "nav") \/ []<><<pc = "nav">>_vars)

(***************************************************************************)
(* Reference semantics, for stating the properties: lookup of a path in    *)
(* the document tree, the Go value a tree stands for, and the extents of   *)
(* values in the token sequence of a well-formed document.                 *)
(***************************************************************************)
\* The segment matches ^-?[0-9]+$.
RefIsIndex(seg) ==
    LET ds == IF seg # <<>> /\ seg[1] = "-" THEN Tail(seg) ELSE seg
    IN  ds # <<>> /\ \A i \in 1..Len(ds) : IsDigit(ds[i])

RefMiss == [ok |-> FALSE, v |-> NoTree]

\* The number the digits of seg write is below n (a number of more than
\* nine digits is not).
RefIndexBelow(seg, n) == Len(StripZeros(seg)) <= 9 /\ DigitsValue(seg) < n

RefStep(v, seg) ==
    IF seg = <<>> THEN RefMiss
    ELSE IF RefIsIndex(seg)
    THEN IF v.k = "[" /\ seg[1] # "-" /\ RefIndexBelow(seg, Len(v.e))
         THEN [ok |-> TRUE, v |-> v.e[DigitsValue(seg) + 1]]
         ELSE RefMiss
    ELSE IF v.k = "{" /\ \E j \in 1..Len(v.m) : v.m[j].name = seg
         THEN [ok |-> TRUE,
               v |-> v.m[CHOOSE j \in 1..Len(v.m) :
                           /\ v.m[j].name = seg
                           /\ \A h \in 1..(j - 1) : v.m[h].name # seg].v]
         ELSE RefMiss

RECURSIVE RefLookup(_, _)
RefLookup(v, segs) ==
    IF segs = <<>> THEN [ok |-> TRUE, v |-> v]
    ELSE LET r == RefStep(v, Head(segs))
         IN  IF r.ok THEN RefLookup(r.v, Tail(segs)) ELSE RefMiss

RECURSIVE ToAny(_)
ToAny(v) ==
    CASE v.k = "{" ->
           GoMap([n \in {v.m[j].name : j \in 1..Len(v.m)} |->
                    ToAny(v.m[CHOOSE j \in 1..Len(v.m) : v.m[j].name = n].v)])
      [] v.k = "[" -> GoSlice([j \in 1..Len(v.e) |-> ToAny(v.e[j])])
      [] v.k = "string" -> GoString(v.s)
      [] v.k = "number" -> GoFloat64(IF v.lex = "int" THEN 10 * v.n ELSE v.n)
      [] v.k = "true" -> GoBool(TRUE)
      [] v.k = "false" -> GoBool(FALSE)
      [] OTHER -> GoNil

\* The position after the value that starts at position p.
RECURSIVE SpanEnd(_, _, _)
SpanEnd(toks, p, depth) ==
    LET k == toks[p].k
        dp == IF k \in {"{", "["} THEN depth + 1
              ELSE IF k \in {"}", "]"} THEN depth - 1
              ELSE depth
    IN  IF dp = 0 THEN p + 1 ELSE SpanEnd(toks, p + 1, dp)

ValueEnd(toks, p) == SpanEnd(toks, p, 0)

\* For an array whose '[' is at position p: where element i starts, and
\* how many elements it has.
RECURSIVE ElemStart(_, _, _)
ElemStart(toks, p, i) ==
    IF i = 0 THEN p + 1 ELSE ValueEnd(toks, ElemStart(toks, p, i - 1))

RECURSIVE CountElems(_, _)
CountElems(toks, q) ==
    IF toks[q].k = "]" THEN 0 ELSE 1 + CountElems(toks, ValueEnd(toks, q))

ArrayLength(toks, p) == CountElems(toks, p + 1)

\* For an object whose '{' is at position p: its member names in document
\* order, and where the value of the first member named name starts.
RECURSIVE NamesFrom(_, _)
NamesFrom(toks, q) ==
    IF toks[q].k = "}" THEN <<>>
    ELSE <<toks[q].s>> \o NamesFrom(toks, ValueEnd(toks, q + 1))

MemberNames(toks, p) == NamesFrom(toks, p + 1)

RECURSIVE ValueOfName(_, _, _)
ValueOfName(toks, q, name) ==
    IF toks[q].s = name THEN q + 1
    ELSE ValueOfName(toks, ValueEnd(toks, q + 1), name)

InList(x, seq) == \E i \in 1..Len(seq) : seq[i] = x

\* The call was refused before the loop over the selectors, as told from
\* its arguments.
BodyRefused == input.nil \/ input.fails \/ (op \in BytesOps /\ Len(input.toks) = 0)

Refused == BodyRefused \/ Len(selectors) = 0

\* The error the called operation returns.
FinalErr == IF op \in SingleOps THEN result.err ELSE err

(***************************************************************************)
(* Properties.                                                             *)
(***************************************************************************)
\* Every input selector is in exactly one of the keys of valuesMap and
\* the not-found list.
Partitioned ==
    \A i \in 1..Len(selectors) :
        (selectors[i] \in DOMAIN valuesMap) # InList(selectors[i], notFound)

\* C1, as claimed: after every batch call, whatever the document (an
\* empty or absent one included) and the selector list, every input
\* selector is in exactly one of the keys of ValuesMap and the NotFound
\* list.
C1_PartitionAlways == pc = "done" => Partitioned

\* C1, amended: after a batch call that was not refused before the loop
\* over the selectors, every input selector is in exactly one of the keys
\* of ValuesMap and the NotFound list; a call that was refused (nil reader,
\* zero-length byte slice, failed read, empty selector list) returns
\* neither a ValuesMap entry nor a NotFound entry.
C1_Partition ==
    pc = "done" =>
        IF Refused THEN valuesMap = <<>> /\ notFound = <<>> ELSE Partitioned

C1_Witness ==
    /\ pc = "done"
    /\ op \in BatchOps
    /\ ~Refused
    /\ Len(selectors) = 2
    /\ valuesMap # <<>>
    /\ notFound # <<>>

\* C2, as claimed: after every batch call the error is non-nil exactly
\* when the NotFound list is non-empty.
C2_ErrorIffNotFoundAlways == pc = "done" => (~err.nil <=> Len(notFound) > 0)

\* C2, amended: after a batch call that was not refused before the loop
\* over the selectors, the error is non-nil exactly when the NotFound list
\* is non-empty, and every selector that resolves is in ValuesMap with its
\* value, also when the error is non-nil; a refused call returns a non-nil
\* error with an empty NotFound list and no values.
C2_ErrorIffNotFound ==
    pc = "done" =>
        IF Refused
        THEN ~err.nil /\ notFound = <<>> /\ valuesMap = <<>>
        ELSE /\ ~err.nil <=> Len(notFound) > 0
             /\ \A i \in 1..Len(selectors) :
                  LET r == extractSingleValue(rawBytes, selectors[i])
                  IN  r.err.nil =>
                        /\ selectors[i] \in DOMAIN valuesMap
                        /\ valuesMap[selectors[i]] = r.value

C2_Witness ==
    /\ pc = "done"
    /\ op \in BatchOps
    /\ ~err.nil
    /\ Len(notFound) = 1
    /\ valuesMap # <<>>

\* C3, as claimed: for a well-formed document and a selector all of whose
\* segments resolve in the document tree, the single-value operations
\* return a nil error and the value the reference lookup finds, numbers
\* as float64.
C3_ResolvedValueReturned ==
    (pc = "done" /\ op \in SingleOps /\ input.wf) =>
        LET r == RefLookup(input.tree, Split(selectors[1]))
        IN  r.ok => result.err.nil /\ result.value = ToAny(r.v)

\* What the single-value operations name themselves in their errors.
Via == IF op = "ExtractValueFromReader"
       THEN ErrExtractingFromJSONByReader
       ELSE ErrExtractingFromJSONBytes

\* C4, as claimed: in the single-value operations a non-empty NotFound
\* list of the batch call gives the SelectorNotFound error, and otherwise
\* the resolved value is returned with a nil error.
C4_SelectorNotFoundReturned ==
    (pc = "done" /\ op \in SingleOps) =>
        IF Len(notFound) > 0
        THEN ErrorsIs(result.err, ErrJSONSelectorNotFound)
        ELSE result.err.nil /\ result.value = valuesMap[selectors[1]]

\* C4, amended: in the single-value operations, whenever the batch call
\* returns a non-nil error, which it does whenever its NotFound list is
\* non-empty, the returned error is that error wrapped with
\* FailedToExtractValueFromJSON and ExtractingFromJSONByReader/Bytes, it
\* does not match SelectorNotFound, and no value is returned; otherwise
\* the single resolved value is returned with a nil error.
C4_BatchErrorWrapped ==
    (pc = "done" /\ op \in SingleOps) =>
        /\ Len(notFound) > 0 => ~err.nil
        /\ IF ~err.nil
           THEN /\ ErrorsIs(result.err, ErrFailedToExtractValueFromJSON)
                /\ ErrorsIs(result.err, Via)
                /\ ~ErrorsIs(result.err, ErrJSONSelectorNotFound)
                /\ result.err.causes = <<err>>
                /\ result.value = GoNil
           ELSE /\ result.err.nil
                /\ selectors[1] \in DOMAIN valuesMap
                /\ result.value = valuesMap[selectors[1]]

C4_Witness ==
    /\ pc = "done"
    /\ op \in SingleOps
    /\ Len(notFound) > 0
    /\ ErrorsIs(result.err, ErrJSONPathSegmentNotFound)

\* C5, as claimed: for a zero-length document body every extraction
\* operation, over bytes or over a reader, fails for every (non-empty)
\* selector with an error matching both PathTraversalFailed and
\* BodyCannotBeEmpty.
C5_EmptyBodyRejected ==
    (pc = "done" /\ ~input.nil /\ ~input.fails /\ Len(input.toks) = 0
       /\ Len(selectors) > 0 /\ ~InList(<<>>, selectors)) =>
        /\ ErrorsIs(FinalErr, ErrJSONPathTraversalFailed)
        /\ ErrorsIs(FinalErr, ErrJSONBodyCannotBeEmpty)

\* C6, as claimed: for the empty selector the returned error matches
\* ValueSelectorCannotBeEmpty, whatever the document.
C6_EmptySelectorAlways ==
    (pc = "done" /\ InList(<<>>, selectors)) =>
        ErrorsIs(FinalErr, ErrJSONValueSelectorCannotBeEmpty)

\* C6, amended: for the empty selector the returned error matches
\* ValueSelectorCannotBeEmpty for every document the call gets to look at
\* (well-formed, malformed, or an empty one delivered by a reader); when
\* the body is refused first (zero-length byte slice, nil reader, failed
\* read) the error is the body's (BodyCannotBeEmpty or ReadFailed) and
\* does not match ValueSelectorCannotBeEmpty.
C6_EmptySelector ==
    (pc = "done" /\ InList(<<>>, selectors)) =>
        IF BodyRefused
        THEN /\ ~ErrorsIs(FinalErr, ErrJSONValueSelectorCannotBeEmpty)
             /\ \/ ErrorsIs(FinalErr, ErrJSONBodyCannotBeEmpty)
                \/ ErrorsIs(FinalErr, ErrJSONReadFailed)
        ELSE ErrorsIs(FinalErr, ErrJSONValueSelectorCannotBeEmpty)

C6_Witness ==
    /\ pc = "done"
    /\ selectors = <<<<>>>>
    /\ ~BodyRefused
    /\ Len(input.toks) > 0
    /\ ErrorsIs(FinalErr, ErrJSONValueSelectorCannotBeEmpty)

HasEmptySegment(selector) ==
    Len(selector) > 0 /\ InList(<<>>, Split(selector))

\* C7, as claimed: for a well-formed document a selector with a zero-length
\* segment fails with an error matching PathContainsEmptySegment, whether
\* or not the segments before the empty one resolve.
C7_EmptySegmentRejected ==
    (pc = "done" /\ input.wf /\ ~BodyRefused /\ Len(selectors) = 1
       /\ HasEmptySegment(selectors[1])) =>
        ErrorsIs(FinalErr, ErrJSONPathContainsEmptySegment)

\* The cursor was at position p of a well-formed document when the last
\* navigation began.
NavAt == last.before.pos

NavOnKind(k) ==
    /\ last.acted
    /\ input.wf
    /\ NavAt <= Len(rawBytes)
    /\ rawBytes[NavAt].k = k

\* C8: index navigation on an array of length n with target index i: for
\* i < 0 or i >= n the error matches IndexOutOfRange, and for i >= n it
\* reports target_index = i and array_length = n; for 0 <= i < n the
\* navigation succeeds with the cursor at the start of element i.
C8_IndexNavigation ==
    (NavOnKind("[") /\ Atoi(last.segment).ok) =>
        LET i == Atoi(last.segment).n
            n == ArrayLength(rawBytes, NavAt)
        IN  /\ (i < 0 \/ i >= n) => ErrorsIs(last.err, ErrJSONIndexOutOfRange)
            /\ i >= n => /\ HasKV(last.err, "target_index", i)
                         /\ HasKV(last.err, "array_length", n)
            /\ (0 <= i /\ i < n) =>
                 /\ last.err.nil
                 /\ last.after.pos = ElemStart(rawBytes, NavAt, i)
                 /\ Len(last.after.stack) = Len(last.before.stack) + 1

C8_Witness ==
    /\ NavOnKind("[")
    /\ Atoi(last.segment).ok
    /\ Atoi(last.segment).n = ArrayLength(rawBytes, NavAt)
    /\ ArrayLength(rawBytes, NavAt) >= 1
    /\ HasKV(last.err, "array_length", ArrayLength(rawBytes, NavAt))

\* C9, as claimed: key navigation at an object compares member names by
\* exact equality: if a member is named as the segment, navigation
\* succeeds with the cursor at the value of the first such member; if none
\* is, the error matches PathSegmentNotFound and reports the key and all
\* member names of the object in document order.
C9_KeyNavigation ==
    (NavOnKind("{") /\ ~Atoi(last.segment).ok) =>
        LET names == MemberNames(rawBytes, NavAt)
        IN  IF InList(last.segment, names)
            THEN /\ last.err.nil
                 /\ last.after.pos = ValueOfName(rawBytes, NavAt + 1, last.segment)
            ELSE /\ ErrorsIs(last.err, ErrJSONPathSegmentNotFound)
                 /\ HasKV(last.err, "missing_key", last.segment)
                 /\ HasKV(last.err, "available_keys", names)

ValueKinds == {"{", "[", "string", "number", "true", "false", "null"}

\* A value begins at the cursor where the last navigation began.
NavOnValue ==
    /\ last.acted
    /\ NavAt <= Len(rawBytes)
    /\ rawBytes[NavAt].k \in ValueKinds

\* C10: a non-negative index segment reached where the next value is not
\* an array fails with an error matching ExpectedArrayAtSegment, a key
\* segment reached where the next value is not an object with one matching
\* ExpectedObjectAtSegment, and the error reports the expected and the
\* actual kind.
C10_ShapeMismatch ==
    NavOnValue =>
        LET k == rawBytes[NavAt].k
            a == Atoi(last.segment)
        IN  /\ (RefIsIndex(last.segment) /\ last.segment[1] # "-" /\ k # "[") =>
                 /\ ErrorsIs(last.err, ErrJSONPathExpectedArrayAtSegment)
                 /\ HasKV(last.err, "expected_type", "array")
                 /\ HasKV(last.err, "actual_type", k)
            /\ (~RefIsIndex(last.segment) /\ k # "{") =>
                 /\ ErrorsIs(last.err, ErrJSONPathExpectedObjectAtSegment)
                 /\ HasKV(last.err, "expected_type", "object")
                 /\ HasKV(last.err, "actual_type", k)

C10_Witness ==
    /\ NavOnValue
    /\ RefIsIndex(last.segment)
    /\ rawBytes[NavAt].k = "{"
    /\ Len(state.pathProgress) = 1
    /\ ErrorsIs(last.err, ErrJSONPathExpectedArrayAtSegment)


\* The input selectors that are no key of the returned map, in input order.
AbsentFromMap == SelectSeq(selectors, LAMBDA x : x \notin DOMAIN valuesMap)

\* C11, as claimed: the NotFound list a batch call returns is exactly the
\* subsequence of the input selectors that are absent from ValuesMap, in
\* input order.
C11_NotFoundAlways == pc = "done" => notFound = AbsentFromMap

\* C11, amended: the NotFound list returned by a batch call that was not
\* refused before the loop over the selectors is exactly the subsequence
\* of the input selectors absent from ValuesMap, in input order, and it
\* lists every selector whose extraction fails, for whatever reason; a
\* refused call returns an empty NotFound list.
C11_NotFoundInOrder ==
    pc = "done" =>
        IF Refused
        THEN notFound = <<>>
        ELSE /\ notFound = AbsentFromMap
             /\ \A i \in 1..Len(selectors) :
                  ~extractSingleValue(rawBytes, selectors[i]).err.nil
                     => InList(selectors[i], notFound)

C11_Witness ==
    /\ pc = "done"
    /\ op \in BatchOps
    /\ ~Refused
    /\ ~input.wf
    /\ Len(notFound) = 2
    /\ notFound[1] # notFound[2]
    /\ notFound = selectors

\* The error names the selector: its json_path is the selector's text; the
\* empty selector has no text, and its error is the one of that case.
CarriesSelector(e, selector) ==
    IF selector = <<>>
    THEN ErrorsIs(e, ErrJSONValueSelectorCannotBeEmpty)
    ELSE HasKV(e, "json_path", selector)

\* C12: after a batch call whose loop over the selectors ran and in which
\* k selectors failed, the returned error joins exactly k errors, the j-th
\* being the error of extracting the j-th failing selector alone, and each
\* joined error carries its selector's text.
C12_AggregationComplete ==
    (pc = "done" /\ op \in BatchOps /\ ~Refused /\ Len(notFound) > 0) =>
        /\ ~err.nil
        /\ Len(err.causes) = Len(notFound)
        /\ \A j \in 1..Len(notFound) :
             /\ err.causes[j] = extractSingleValue(rawBytes, notFound[j]).err
             /\ ~err.causes[j].nil
             /\ CarriesSelector(err.causes[j], notFound[j])

C12_Witness ==
    /\ pc = "done"
    /\ op \in BatchOps
    /\ ~Refused
    /\ Len(notFound) = 2
    /\ Len(err.causes) = 2
    /\ notFound[1] # notFound[2]
    /\ HasKV(err.causes[1], "json_path", notFound[1])
    /\ HasKV(err.causes[2], "json_path", notFound[2])
    /\ err.causes[1].sentinels # err.causes[2].sentinels

\* C13: in a batch call over a fixed document the outcome for each
\* selector (its value in ValuesMap, or its absence and its error) is the
\* outcome of extracting that selector alone over the document, whatever
\* else is in the list; every traversal starts from a fresh cursor at the
\* beginning of the unmodified buffered bytes.
C13_Isolation ==
    /\ pc \in {"loop", "nav"} => rawBytes = input.toks
    /\ (pc = "nav" /\ Len(hist) = 1) =>
          /\ state.decoder = NewDecoder(input.toks)
          /\ state.selector = Current
    /\ (pc = "done" /\ op \in BatchOps /\ ~Refused) =>
          /\ rawBytes = input.toks
          /\ \A i \in 1..Len(selectors) :
               LET alone == extractSingleValue(input.toks, selectors[i])
               IN  IF alone.err.nil
                   THEN /\ selectors[i] \in DOMAIN valuesMap
                        /\ valuesMap[selectors[i]] = alone.value
                   ELSE /\ selectors[i] \notin DOMAIN valuesMap
                        /\ \E j \in 1..Len(notFound) :
                             /\ notFound[j] = selectors[i]
                             /\ err.causes[j] = alone.err

C13_Witness ==
    /\ pc = "done"
    /\ op \in BatchOps
    /\ ~Refused
    /\ ~input.wf
    /\ Len(selectors) = 2
    /\ notFound = <<selectors[1]>>
    /\ ErrorsIs(err, ErrJSONTokenReadFailed)
    /\ selectors[2] \in DOMAIN valuesMap

\* How the last navigation, begun at a value of a well-formed document,
\* treated its segment, by what it did: only index navigation enters an
\* array, reports an index out of range or asks for an array; only key
\* navigation enters an object, reports a missing key or asks for an
\* object.
TreatedAsIndex ==
    \/ last.err.nil /\ rawBytes[NavAt].k = "["
    \/ ErrorsIs(last.err, ErrJSONIndexOutOfRange)
    \/ ErrorsIs(last.err, ErrJSONPathExpectedArrayAtSegment)

TreatedAsKey ==
    \/ last.err.nil /\ rawBytes[NavAt].k = "{"
    \/ ErrorsIs(last.err, ErrJSONPathSegmentNotFound)
    \/ ErrorsIs(last.err, ErrJSONPathExpectedObjectAtSegment)

\* C14, as claimed: navigateToSegment treats a non-empty segment as an
\* index segment if and only if it matches ^-?[0-9]+$, whatever its
\* magnitude, and every other segment as a key segment; so an object
\* member whose name is purely numeric is never reached.
C14_SyntacticClassification ==
    (NavOnValue /\ input.wf) =>
        /\ TreatedAsIndex <=> RefIsIndex(last.segment)
        /\ TreatedAsKey <=> ~RefIsIndex(last.segment)
        /\ (RefIsIndex(last.segment) /\ rawBytes[NavAt].k = "{") => ~last.err.nil

\* C15, as claimed: whenever the cursor hits malformed or truncated JSON
\* while a segment is navigated, the error matches TokenReadFailed and no
\* shape-mismatch, not-found or out-of-range category: a navigation that
\* begins where no next kind can be peeked fails with TokenReadFailed, and
\* an index navigation does not succeed onto such a place.
C15_MalformedIsTokenReadFailed ==
    (last.acted /\ Len(rawBytes) > 0) =>
        /\ PeekKind(last.before) = "invalid" =>
             /\ ErrorsIs(last.err, ErrJSONTokenReadFailed)
             /\ ~ErrorsIs(last.err, ErrJSONPathExpectedArrayAtSegment)
             /\ ~ErrorsIs(last.err, ErrJSONPathExpectedObjectAtSegment)
             /\ ~ErrorsIs(last.err, ErrJSONPathSegmentNotFound)
             /\ ~ErrorsIs(last.err, ErrJSONIndexOutOfRange)
        /\ (last.err.nil /\ Atoi(last.segment).ok) =>
             PeekKind(last.after) # "invalid"

\* At the cursor d, what an iteration of the loops does either consumes
\* input or fails: a token read moves the cursor on by one token, a skip
\* by at least one, and where no kind can be peeked both fail.
Consumes(d) ==
    LET r == ReadToken(d)
        k == SkipValue(d)
    IN  /\ ~r.err => r.d.pos = d.pos + 1
        /\ ~k.err => k.d.pos > d.pos
        /\ PeekKind(d) = "invalid" => r.err /\ k.err

LoopsConsume ==
    /\ pc = "nav" => Consumes(state.decoder)
    /\ last.acted =>
         /\ Consumes(last.before)
         /\ Consumes(last.after)
         /\ last.after.pos >= last.before.pos
         /\ last.after.pos <= Len(rawBytes) + 1

PositionMonotone ==
    \A j \in 1..(Len(hist) - 1) : hist[j] <= hist[j + 1]

\* A segment has just been navigated and appended to the path progress.
StepBoundary == pc = "nav" /\ last.acted /\ last.err.nil

\* C17, as claimed: within one traversal the position never decreases, and
\* at every successful step boundary it equals the length of pathProgress.
C17_PositionIsProgress ==
    /\ PositionMonotone
    /\ StepBoundary => state.position = Len(state.pathProgress)

\* C17, amended: within one traversal the position never decreases; it is
\* the index of the segment being processed, so at every successful step
\* boundary (after a segment has been navigated and appended to
\* pathProgress, the last one included) it is the length of pathProgress
\* minus one, and it equals that length when the iteration that set it
\* fails.
C17_PositionIsSegmentIndex ==
    /\ PositionMonotone
    /\ StepBoundary =>
         /\ state.position = Len(state.pathProgress) - 1
         /\ state.i = Len(state.pathProgress)
         /\ hist[Len(hist)] = state.position
    /\ (pc = "loop" /\ last.acted /\ ~last.err.nil) =>
         state.position = Len(state.pathProgress)

C17_Witness ==
    /\ StepBoundary
    /\ Len(state.pathProgress) = Len(state.segments)
    /\ Len(state.pathProgress) = 3
    /\ state.position = 2
    /\ hist = <<0, 0, 1, 2>>

====
